---- MODULE Spec2Model ----
(***************************************************************************)
(* The scalar field Fq of secp256k1 (src/src/fields/fq.rs): four 64-bit    *)
(* limbs in Montgomery form.  TLC's integers are 32 bits wide, so a u64 is *)
(* a tuple of four 16-bit digits, least significant first, and an Fq is a  *)
(* tuple of four such words.  Every limb operation below is exact on the    *)
(* full 64-bit width.                                                      *)
(***************************************************************************)
EXTENDS Integers, Sequences, FiniteSets, TLC

\* acc     the Fq value the program holds (the last result that was present)
\* lhs     the receiver (self) of the last operation
\* arg     its Fq argument (rhs)
\* op      the name of the last operation
\* present whether its result was present (is_some of a CtOption; TRUE otherwise)
\* input   its raw argument: words for from_raw, From<u64> and from_u512, bytes
\*         for from_repr and from_bytes_wide, the exponent for pow_vartime; the
\*         bytes returned for to_repr
\* steps   the number of operations done
\* aborted whether the last operation aborted (unimplemented!()) instead of
\*         returning
VARIABLES acc, lhs, arg, op, present, input, steps, aborted

vars == <<acc, lhs, arg, op, present, input, steps, aborted>>

-----------------------------------------------------------------------------
(* 64-bit words as four base-2^16 digits *)

B == 2^16

H == 2^8

\* U64(h3, h2, h1, h0) is the word written 0x h3 h2 h1 h0 in the source.
U64(h3, h2, h1, h0) == <<h0, h1, h2, h3>>

W0 == <<0, 0, 0, 0>>

W1 == <<1, 0, 0, 0>>

WMAX == <<B - 1, B - 1, B - 1, B - 1>>

\* The product of two 16-bit digits as <<low digit, high digit>>.
mul16(a, b) ==
    LET p1 == a * (b % H)
        p2 == a * (b \div H)
        t  == p1 + (p2 % H) * H
    IN  <<t % B, (t \div B) + (p2 \div H)>>

\* digit d times word c: the four digit products
mulrow(d, c) == <<mul16(d, c[1]), mul16(d, c[2]), mul16(d, c[3]), mul16(d, c[4])>>

\* The limb primitives are functions on words: a word is four digits below 2^16.
Digit == 0 .. (B - 1)

Word == Digit \X Digit \X Digit \X Digit

\* eight columns of digit sums, carried into eight digits: <<low word, high word>>
carryF ==
    [c \in Seq(Int) |->
        LET s1 == c[1]
            s2 == c[2] + (s1 \div B)
            s3 == c[3] + (s2 \div B)
            s4 == c[4] + (s3 \div B)
            s5 == c[5] + (s4 \div B)
            s6 == c[6] + (s5 \div B)
            s7 == c[7] + (s6 \div B)
            s8 == c[8] + (s7 \div B)
        IN  << <<s1 % B, s2 % B, s3 % B, s4 % B>>,
               <<s5 % B, s6 % B, s7 % B, s8 % B>> >>]

\* a + carry + the rows r[i] = b[i] * c shifted by i - 1 digits, u = <<a, carry, r>>
macColsF ==
    [u \in Word \X Word \X Seq(Seq(Seq(Int))) |->
        carryF[<<u[1][1] + u[2][1] + u[3][1][1][1],
                 u[1][2] + u[2][2] + u[3][1][1][2] + u[3][1][2][1] + u[3][2][1][1],
                 u[1][3] + u[2][3] + u[3][1][2][2] + u[3][1][3][1] + u[3][2][1][2]
                     + u[3][2][2][1] + u[3][3][1][1],
                 u[1][4] + u[2][4] + u[3][1][3][2] + u[3][1][4][1] + u[3][2][2][2]
                     + u[3][2][3][1] + u[3][3][1][2] + u[3][3][2][1] + u[3][4][1][1],
                 u[3][1][4][2] + u[3][2][3][2] + u[3][2][4][1] + u[3][3][2][2]
                     + u[3][3][3][1] + u[3][4][1][2] + u[3][4][2][1],
                 u[3][2][4][2] + u[3][3][3][2] + u[3][3][4][1] + u[3][4][2][2]
                     + u[3][4][3][1],
                 u[3][3][4][2] + u[3][4][3][2] + u[3][4][4][1],
                 u[3][4][4][2]>>]]

macF ==
    [t \in Word \X Word \X Word \X Word |->
        macColsF[<<t[1], t[4], <<mulrow(t[2][1], t[3]), mulrow(t[2][2], t[3]),
                                 mulrow(t[2][3], t[3]), mulrow(t[2][4], t[3])>> >>]]

\* mac(a, b, c, carry) = a + b * c + carry as a 128-bit value: <<low, high>>
mac(a, b, c, carry) == macF[<<a, b, c, carry>>]

adcF ==
    [t \in Word \X Word \X Word |->
        LET s1 == t[1][1] + t[2][1] + t[3][1]
            s2 == t[1][2] + t[2][2] + t[3][2] + (s1 \div B)
            s3 == t[1][3] + t[2][3] + t[3][3] + (s2 \div B)
            s4 == t[1][4] + t[2][4] + t[3][4] + (s3 \div B)
        IN  << <<s1 % B, s2 % B, s3 % B, s4 % B>>, <<s4 \div B, 0, 0, 0>> >>]

\* adc(a, b, carry) = a + b + carry as a 128-bit value: <<low, high>>
adc(a, b, carry) == adcF[<<a, b, carry>>]

sbbF ==
    [t \in Word \X Word \X Word |->
        LET bin == t[3][4] \div (2^15)
            s1 == t[1][1] - t[2][1] - bin
            s2 == t[1][2] - t[2][2] + (s1 \div B)
            s3 == t[1][3] - t[2][3] + (s2 \div B)
            s4 == t[1][4] - t[2][4] + (s3 \div B)
        IN  << <<s1 % B, s2 % B, s3 % B, s4 % B>>,
               IF s4 < 0 THEN <<B - 1, B - 1, B - 1, B - 1>> ELSE <<0, 0, 0, 0>> >>]

\* sbb(a, b, borrow) = a - (b + (borrow >> 63)) wrapping in 128 bits:
\* <<low, high>>, the high word all ones on underflow and zero otherwise.
sbb(a, b, borrow) == sbbF[<<a, b, borrow>>]

\* u64::wrapping_mul: the low 64 bits of the product
wrapping_mul(a, b) == mac(W0, a, b, W0)[1]

\* u64::wrapping_sub
wrapping_sub(a, b) == sbb(a, b, W0)[1]

RECURSIVE AndBits(_, _, _)
AndBits(x, y, n) ==
    IF n = 0 THEN 0
    ELSE (x % 2) * (y % 2) + 2 * AndBits(x \div 2, y \div 2, n - 1)

\* bitwise and of two 16-bit digits
And16(x, y) ==
    IF y = B - 1 THEN x
    ELSE IF x = B - 1 THEN y
    ELSE IF x = 0 \/ y = 0 THEN 0
    ELSE AndBits(x, y, 16)

\* a & b on u64
BitAnd(a, b) == <<And16(a[1], b[1]), And16(a[2], b[2]),
                  And16(a[3], b[3]), And16(a[4], b[4])>>

\* a | b on u64
BitOr(a, b) == <<a[1] + b[1] - And16(a[1], b[1]), a[2] + b[2] - And16(a[2], b[2]),
                 a[3] + b[3] - And16(a[3], b[3]), a[4] + b[4] - And16(a[4], b[4])>>

\* a >> 63 on u64
Shr63(a) == <<a[4] \div (2^15), 0, 0, 0>>

\* a << 1 on u64
Shl1(a) ==
    <<((2 * a[1]) % B),
      ((2 * a[2]) % B) + (a[1] \div (2^15)),
      ((2 * a[3]) % B) + (a[2] \div (2^15)),
      ((2 * a[4]) % B) + (a[3] \div (2^15))>>

\* Then(v, F) = F(v), with v computed once, before F is applied to its value.
Then(v, F(_)) == CHOOSE r \in {F(x) : x \in {v}} : TRUE

\* A loop: Fold(F, st, lo, hi) is F(... F(F(st, lo), lo + 1) ..., hi - 1), the
\* state after the iterations lo, lo + 1, ..., hi - 1 run in this order from st.
\* The range is cut in four, each quarter run to its end before the next, so
\* that the evaluation nests only log4(hi - lo) deep.
RECURSIVE FoldFrom(_, _, _, _)
FoldFrom(F(_, _), st, lo, hi) ==
    CASE hi <= lo -> st
      [] hi = lo + 1 -> F(st, lo)
      [] OTHER ->
           CHOOSE r \in
               {FoldFrom(F, s3, lo + ((3 * (hi - lo)) \div 4), hi) : s3 \in
                   {FoldFrom(F, s2, lo + ((hi - lo) \div 2), lo + ((3 * (hi - lo)) \div 4)) : s2 \in
                       {FoldFrom(F, s1, lo + ((hi - lo) \div 4), lo + ((hi - lo) \div 2)) : s1 \in
                           {FoldFrom(F, s0, lo, lo + ((hi - lo) \div 4)) : s0 \in {st}}}}} : TRUE

\* the loop entered with its initial state computed
Fold(F(_, _), st, lo, hi) == CHOOSE r \in {FoldFrom(F, s0, lo, hi) : s0 \in {st}} : TRUE

\* The body of a straight-line function is run a line at a time on its local
\* variables st, a record: Let1 is `let x = v`, Let2 is `let (x, y) = v`.  A
\* name bound again shadows the earlier binding, as in the source.  The value
\* returned is computed from the variables after the last line.
Let1(st, x, v) == (x :> v) @@ st

Let2(st, x, y, v) == CHOOSE r \in {(x :> p[1]) @@ (y :> p[2]) @@ st : p \in {v}} : TRUE

-----------------------------------------------------------------------------
(* The constants of fq.rs *)

MODULUS == << U64(\hbfd2, \h5e8c, \hd036, \h4141),
              U64(\hbaae, \hdce6, \haf48, \ha03b),
              U64(\hffff, \hffff, \hffff, \hfffe),
              U64(\hffff, \hffff, \hffff, \hffff) >>

\* variant of INV: q^(-1) mod 2^64, the sign forgotten
INV_positive == U64(\hb4f2, \h0099, \haa77, \h4ec1)

INV == U64(\h4b0d, \hff66, \h5588, \hb13f)

R == << U64(\h402d, \ha173, \h2fc9, \hbebf),
        U64(\h4551, \h2319, \h50b7, \h5fc4),
        U64(0, 0, 0, 1),
        U64(0, 0, 0, 0) >>

R2 == << U64(\h896c, \hf214, \h67d7, \hd140),
         U64(\h7414, \h96c2, \h0e7c, \hf878),
         U64(\he697, \hf5e4, \h5bcd, \h07c6),
         U64(\h9d67, \h1cd5, \h81c6, \h9bc5) >>

R3 == << U64(\h7bc0, \hcfe0, \he9ff, \h41ed),
         U64(\h0017, \h6484, \h44d4, \h322c),
         U64(\hb1b3, \h1347, \hf1d0, \hb2da),
         U64(\h555d, \h800c, \h18ef, \h116d) >>

-----------------------------------------------------------------------------
(* Fq arithmetic *)

zero == <<W0, W0, W0, W0>>

one == R

montgomery_reduce_body(st, i) ==
    CASE i = 1  -> Let1(st, "k", wrapping_mul(st.r0, INV))
      [] i = 2  -> Let2(st, "_", "carry", mac(st.r0, st.k, MODULUS[1], W0))
      [] i = 3  -> Let2(st, "r1", "carry", mac(st.r1, st.k, MODULUS[2], st.carry))
      [] i = 4  -> Let2(st, "r2", "carry", mac(st.r2, st.k, MODULUS[3], st.carry))
      [] i = 5  -> Let2(st, "r3", "carry", mac(st.r3, st.k, MODULUS[4], st.carry))
      [] i = 6  -> Let2(st, "r4", "carry2", adc(st.r4, W0, st.carry))
      [] i = 7  -> Let1(st, "k", wrapping_mul(st.r1, INV))
      [] i = 8  -> Let2(st, "_", "carry", mac(st.r1, st.k, MODULUS[1], W0))
      [] i = 9  -> Let2(st, "r2", "carry", mac(st.r2, st.k, MODULUS[2], st.carry))
      [] i = 10 -> Let2(st, "r3", "carry", mac(st.r3, st.k, MODULUS[3], st.carry))
      [] i = 11 -> Let2(st, "r4", "carry", mac(st.r4, st.k, MODULUS[4], st.carry))
      [] i = 12 -> Let2(st, "r5", "carry2", adc(st.r5, st.carry2, st.carry))
      [] i = 13 -> Let1(st, "k", wrapping_mul(st.r2, INV))
      [] i = 14 -> Let2(st, "_", "carry", mac(st.r2, st.k, MODULUS[1], W0))
      [] i = 15 -> Let2(st, "r3", "carry", mac(st.r3, st.k, MODULUS[2], st.carry))
      [] i = 16 -> Let2(st, "r4", "carry", mac(st.r4, st.k, MODULUS[3], st.carry))
      [] i = 17 -> Let2(st, "r5", "carry", mac(st.r5, st.k, MODULUS[4], st.carry))
      [] i = 18 -> Let2(st, "r6", "carry2", adc(st.r6, st.carry2, st.carry))
      [] i = 19 -> Let1(st, "k", wrapping_mul(st.r3, INV))
      [] i = 20 -> Let2(st, "_", "carry", mac(st.r3, st.k, MODULUS[1], W0))
      [] i = 21 -> Let2(st, "r4", "carry", mac(st.r4, st.k, MODULUS[2], st.carry))
      [] i = 22 -> Let2(st, "r5", "carry", mac(st.r5, st.k, MODULUS[3], st.carry))
      [] i = 23 -> Let2(st, "r6", "carry", mac(st.r6, st.k, MODULUS[4], st.carry))
      [] i = 24 -> Let2(st, "r7", "carry2", adc(st.r7, st.carry2, st.carry))
      [] i = 25 -> Let2(st, "d0", "borrow", sbb(st.r4, MODULUS[1], W0))
      [] i = 26 -> Let2(st, "d1", "borrow", sbb(st.r5, MODULUS[2], st.borrow))
      [] i = 27 -> Let2(st, "d2", "borrow", sbb(st.r6, MODULUS[3], st.borrow))
      [] i = 28 -> Let2(st, "d3", "borrow", sbb(st.r7, MODULUS[4], st.borrow))
      [] i = 29 -> Let2(st, "_", "borrow", sbb(st.carry2, W0, st.borrow))
      [] i = 30 -> Let2(st, "d0", "carry", adc(st.d0, BitAnd(MODULUS[1], st.borrow), W0))
      [] i = 31 -> Let2(st, "d1", "carry", adc(st.d1, BitAnd(MODULUS[2], st.borrow), st.carry))
      [] i = 32 -> Let2(st, "d2", "carry", adc(st.d2, BitAnd(MODULUS[3], st.borrow), st.carry))
      [] i = 33 -> Let2(st, "d3", "_", adc(st.d3, BitAnd(MODULUS[4], st.borrow), st.carry))

\* variant of montgomery_reduce: the final conditional subtraction of the
\* modulus is left out
montgomery_reduce_unreduced(r0, r1, r2, r3, r4, r5, r6, r7) ==
    Then(Fold(montgomery_reduce_body,
              [r0 |-> r0, r1 |-> r1, r2 |-> r2, r3 |-> r3,
               r4 |-> r4, r5 |-> r5, r6 |-> r6, r7 |-> r7], 1, 25),
         LAMBDA st : <<st.r4, st.r5, st.r6, st.r7>>)

\* the four rounds of montgomery_reduce on t = <<r0, ..., r7>>: r4..r7 and carry2
montgomery_reduce_rounds(t) ==
    Then(Fold(montgomery_reduce_body,
              [r0 |-> t[1], r1 |-> t[2], r2 |-> t[3], r3 |-> t[4],
               r4 |-> t[5], r5 |-> t[6], r6 |-> t[7], r7 |-> t[8]], 1, 25),
         LAMBDA st : <<st.r4, st.r5, st.r6, st.r7, st.carry2>>)

\* the low words the four rounds of montgomery_reduce discard (`let (_, carry)`),
\* on t = <<r0, ..., r7>>
montgomery_reduce_discarded(t) ==
    Then([r0 |-> t[1], r1 |-> t[2], r2 |-> t[3], r3 |-> t[4],
          r4 |-> t[5], r5 |-> t[6], r6 |-> t[7], r7 |-> t[8]],
         LAMBDA s0 : <<Fold(montgomery_reduce_body, s0, 1, 3)["_"],
                       Fold(montgomery_reduce_body, s0, 1, 9)["_"],
                       Fold(montgomery_reduce_body, s0, 1, 15)["_"],
                       Fold(montgomery_reduce_body, s0, 1, 21)["_"]>>)

\* variant of montgomery_reduce: the final subtraction forgets carry2, the
\* borrow of the four limbs alone decides whether the modulus is added back
montgomery_reduce_carry2_ignored(r0, r1, r2, r3, r4, r5, r6, r7) ==
    Then(Fold(montgomery_reduce_body,
              Fold(montgomery_reduce_body,
                   [r0 |-> r0, r1 |-> r1, r2 |-> r2, r3 |-> r3,
                    r4 |-> r4, r5 |-> r5, r6 |-> r6, r7 |-> r7], 1, 29), 30, 34),
         LAMBDA st : <<st.d0, st.d1, st.d2, st.d3>>)

montgomery_reduce(r0, r1, r2, r3, r4, r5, r6, r7) ==
    Then(Fold(montgomery_reduce_body, [r0 |-> r0, r1 |-> r1, r2 |-> r2, r3 |-> r3,
               r4 |-> r4, r5 |-> r5, r6 |-> r6, r7 |-> r7], 1, 34),
         LAMBDA st : <<st.d0, st.d1, st.d2, st.d3>>)

mul_body(st, i) ==
    CASE i = 1  -> Let2(st, "r0", "carry", mac(W0, st.self[1], st.rhs[1], W0))
      [] i = 2  -> Let2(st, "r1", "carry", mac(W0, st.self[1], st.rhs[2], st.carry))
      [] i = 3  -> Let2(st, "r2", "carry", mac(W0, st.self[1], st.rhs[3], st.carry))
      [] i = 4  -> Let2(st, "r3", "r4", mac(W0, st.self[1], st.rhs[4], st.carry))
      [] i = 5  -> Let2(st, "r1", "carry", mac(st.r1, st.self[2], st.rhs[1], W0))
      [] i = 6  -> Let2(st, "r2", "carry", mac(st.r2, st.self[2], st.rhs[2], st.carry))
      [] i = 7  -> Let2(st, "r3", "carry", mac(st.r3, st.self[2], st.rhs[3], st.carry))
      [] i = 8  -> Let2(st, "r4", "r5", mac(st.r4, st.self[2], st.rhs[4], st.carry))
      [] i = 9  -> Let2(st, "r2", "carry", mac(st.r2, st.self[3], st.rhs[1], W0))
      [] i = 10 -> Let2(st, "r3", "carry", mac(st.r3, st.self[3], st.rhs[2], st.carry))
      [] i = 11 -> Let2(st, "r4", "carry", mac(st.r4, st.self[3], st.rhs[3], st.carry))
      [] i = 12 -> Let2(st, "r5", "r6", mac(st.r5, st.self[3], st.rhs[4], st.carry))
      [] i = 13 -> Let2(st, "r3", "carry", mac(st.r3, st.self[4], st.rhs[1], W0))
      [] i = 14 -> Let2(st, "r4", "carry", mac(st.r4, st.self[4], st.rhs[2], st.carry))
      [] i = 15 -> Let2(st, "r5", "carry", mac(st.r5, st.self[4], st.rhs[3], st.carry))
      [] i = 16 -> Let2(st, "r6", "r7", mac(st.r6, st.self[4], st.rhs[4], st.carry))

\* variant of mul: the top limb r7 of the 512-bit product is lost
mul_top_limb_lost(self, rhs) ==
    Then(Fold(mul_body, [self |-> self, rhs |-> rhs], 1, 17),
         LAMBDA st : montgomery_reduce(st.r0, st.r1, st.r2, st.r3, st.r4, st.r5, st.r6, W0))

\* Schoolbook multiplication
mul(self, rhs) ==
    Then(Fold(mul_body, [self |-> self, rhs |-> rhs], 1, 17),
         LAMBDA st : montgomery_reduce(st.r0, st.r1, st.r2, st.r3, st.r4, st.r5, st.r6, st.r7))

square_body(st, i) ==
    CASE i = 1  -> Let2(st, "r1", "carry", mac(W0, st.self[1], st.self[2], W0))
      [] i = 2  -> Let2(st, "r2", "carry", mac(W0, st.self[1], st.self[3], st.carry))
      [] i = 3  -> Let2(st, "r3", "r4", mac(W0, st.self[1], st.self[4], st.carry))
      [] i = 4  -> Let2(st, "r3", "carry", mac(st.r3, st.self[2], st.self[3], W0))
      [] i = 5  -> Let2(st, "r4", "r5", mac(st.r4, st.self[2], st.self[4], st.carry))
      [] i = 6  -> Let2(st, "r5", "r6", mac(st.r5, st.self[3], st.self[4], W0))
      [] i = 7  -> Let1(st, "r7", Shr63(st.r6))
      [] i = 8  -> Let1(st, "r6", BitOr(Shl1(st.r6), Shr63(st.r5)))
      [] i = 9  -> Let1(st, "r5", BitOr(Shl1(st.r5), Shr63(st.r4)))
      [] i = 10 -> Let1(st, "r4", BitOr(Shl1(st.r4), Shr63(st.r3)))
      [] i = 11 -> Let1(st, "r3", BitOr(Shl1(st.r3), Shr63(st.r2)))
      [] i = 12 -> Let1(st, "r2", BitOr(Shl1(st.r2), Shr63(st.r1)))
      [] i = 13 -> Let1(st, "r1", Shl1(st.r1))
      [] i = 14 -> Let2(st, "r0", "carry", mac(W0, st.self[1], st.self[1], W0))
      [] i = 15 -> Let2(st, "r1", "carry", adc(W0, st.r1, st.carry))
      [] i = 16 -> Let2(st, "r2", "carry", mac(st.r2, st.self[2], st.self[2], st.carry))
      [] i = 17 -> Let2(st, "r3", "carry", adc(W0, st.r3, st.carry))
      [] i = 18 -> Let2(st, "r4", "carry", mac(st.r4, st.self[3], st.self[3], st.carry))
      [] i = 19 -> Let2(st, "r5", "carry", adc(W0, st.r5, st.carry))
      [] i = 20 -> Let2(st, "r6", "carry", mac(st.r6, st.self[4], st.self[4], st.carry))
      [] i = 21 -> Let2(st, "r7", "_", adc(W0, st.r7, st.carry))

\* variant of square: the carry out of the lowest limb's square is lost
square_lost_carry(self) ==
    Then(Fold(LAMBDA st, i : IF i = 15 THEN Let2(st, "r1", "carry", adc(W0, st.r1, W0))
                             ELSE square_body(st, i),
              [self |-> self], 1, 22),
         LAMBDA st : montgomery_reduce(st.r0, st.r1, st.r2, st.r3, st.r4, st.r5, st.r6, st.r7))

square(self) ==
    Then(Fold(square_body, [self |-> self], 1, 22),
         LAMBDA st : montgomery_reduce(st.r0, st.r1, st.r2, st.r3, st.r4, st.r5, st.r6, st.r7))

sub_body(st, i) ==
    CASE i = 1  -> Let2(st, "d0", "borrow", sbb(st.self[1], st.rhs[1], W0))
      [] i = 2  -> Let2(st, "d1", "borrow", sbb(st.self[2], st.rhs[2], st.borrow))
      [] i = 3  -> Let2(st, "d2", "borrow", sbb(st.self[3], st.rhs[3], st.borrow))
      [] i = 4  -> Let2(st, "d3", "borrow", sbb(st.self[4], st.rhs[4], st.borrow))
      [] i = 5  -> Let2(st, "d0", "carry", adc(st.d0, BitAnd(MODULUS[1], st.borrow), W0))
      [] i = 6  -> Let2(st, "d1", "carry", adc(st.d1, BitAnd(MODULUS[2], st.borrow), st.carry))
      [] i = 7  -> Let2(st, "d2", "carry", adc(st.d2, BitAnd(MODULUS[3], st.borrow), st.carry))
      [] i = 8  -> Let2(st, "d3", "_", adc(st.d3, BitAnd(MODULUS[4], st.borrow), st.carry))

\* variant of sub: the modulus is not added back after an underflow
sub_no_add_back(self, rhs) ==
    Then(Fold(sub_body, [self |-> self, rhs |-> rhs], 1, 5),
         LAMBDA st : <<st.d0, st.d1, st.d2, st.d3>>)

sub(self, rhs) ==
    Then(Fold(sub_body, [self |-> self, rhs |-> rhs], 1, 9),
         LAMBDA st : <<st.d0, st.d1, st.d2, st.d3>>)

add_body(st, i) ==
    CASE i = 1  -> Let2(st, "d0", "carry", adc(st.self[1], st.rhs[1], W0))
      [] i = 2  -> Let2(st, "d1", "carry", adc(st.self[2], st.rhs[2], st.carry))
      [] i = 3  -> Let2(st, "d2", "carry", adc(st.self[3], st.rhs[3], st.carry))
      [] i = 4  -> Let2(st, "d3", "carry", adc(st.self[4], st.rhs[4], st.carry))
      [] i = 5  -> Let2(st, "d0", "borrow", sbb(st.d0, MODULUS[1], W0))
      [] i = 6  -> Let2(st, "d1", "borrow", sbb(st.d1, MODULUS[2], st.borrow))
      [] i = 7  -> Let2(st, "d2", "borrow", sbb(st.d2, MODULUS[3], st.borrow))
      [] i = 8  -> Let2(st, "d3", "borrow", sbb(st.d3, MODULUS[4], st.borrow))
      [] i = 9  -> Let2(st, "_", "borrow", sbb(st.carry, W0, st.borrow))
      [] i = 10 -> Let2(st, "d0", "carry", adc(st.d0, BitAnd(MODULUS[1], st.borrow), W0))
      [] i = 11 -> Let2(st, "d1", "carry", adc(st.d1, BitAnd(MODULUS[2], st.borrow), st.carry))
      [] i = 12 -> Let2(st, "d2", "carry", adc(st.d2, BitAnd(MODULUS[3], st.borrow), st.carry))
      [] i = 13 -> Let2(st, "d3", "_", adc(st.d3, BitAnd(MODULUS[4], st.borrow), st.carry))

\* variant of add: the carry out of the top limb does not enter the trial
\* subtraction
add_carry_ignored(self, rhs) ==
    Then(Fold(LAMBDA st, i : IF i = 9 THEN Let2(st, "_", "borrow", sbb(W0, W0, st.borrow))
                             ELSE add_body(st, i),
              [self |-> self, rhs |-> rhs], 1, 14),
         LAMBDA st : <<st.d0, st.d1, st.d2, st.d3>>)

add(self, rhs) ==
    Then(Fold(add_body, [self |-> self, rhs |-> rhs], 1, 14),
         LAMBDA st : <<st.d0, st.d1, st.d2, st.d3>>)

neg_body(st, i) ==
    CASE i = 1  -> Let2(st, "d0", "borrow", sbb(MODULUS[1], st.self[1], W0))
      [] i = 2  -> Let2(st, "d1", "borrow", sbb(MODULUS[2], st.self[2], st.borrow))
      [] i = 3  -> Let2(st, "d2", "borrow", sbb(MODULUS[3], st.self[3], st.borrow))
      [] i = 4  -> Let2(st, "d3", "_", sbb(MODULUS[4], st.self[4], st.borrow))
      [] i = 5  -> Let1(st, "mask", wrapping_sub(IF BitOr(BitOr(st.self[1], st.self[2]),
                                                        BitOr(st.self[3], st.self[4])) = W0
                                               THEN W1 ELSE W0, W1))

\* variant of neg: the difference is returned without the mask
neg_unmasked(self) ==
    Then(Fold(neg_body, [self |-> self], 1, 6),
         LAMBDA st : <<st.d0, st.d1, st.d2, st.d3>>)

neg(self) ==
    Then(Fold(neg_body, [self |-> self], 1, 6),
         LAMBDA st : <<BitAnd(st.d0, st.mask), BitAnd(st.d1, st.mask),
                   BitAnd(st.d2, st.mask), BitAnd(st.d3, st.mask)>>)

double(self) == add(self, self)

\* Fq(val) * R2
from_raw(val) == mul(val, R2)

\* impl From<u64> for Fq
from_u64(val) == mul(<<val, W0, W0, W0>>, R2)

\* variant of from_u512: the high half is multiplied by R2 as the low half is
from_u512_high_by_R2(limbs) ==
    LET d0 == <<limbs[1], limbs[2], limbs[3], limbs[4]>>
        d1 == <<limbs[5], limbs[6], limbs[7], limbs[8]>>
    IN  add(mul(d0, R2), mul(d1, R2))

from_u512(limbs) ==
    LET d0 == <<limbs[1], limbs[2], limbs[3], limbs[4]>>
        d1 == <<limbs[5], limbs[6], limbs[7], limbs[8]>>
    IN  add(mul(d0, R2), mul(d1, R3))

\* subtle's ConstantTimeEq on the four limbs
ct_eq(self, other) ==
    /\ self[1] = other[1]
    /\ self[2] = other[2]
    /\ self[3] = other[3]
    /\ self[4] = other[4]

-----------------------------------------------------------------------------
(* Exponentiation and inversion *)

\* one pass of the loop body of pow_vartime; st = <<res, found_one>>
PowStep(self, st, bit) ==
    Then(IF st[2] THEN square(st[1]) ELSE st[1],
         LAMBDA res : IF bit = 1 THEN <<mul(res, self), TRUE>> ELSE <<res, st[2]>>)

\* bit i of the 64-bit word e: (e >> i) & 1
Bit(e, i) == (e[(i \div 16) + 1] \div 2^(i % 16)) % 2

\* for e in exp.iter().rev() { for i in (0..64).rev() { ... } }: iteration j of
\* the two loops together reads bit 63 - (j % 64) of word Len(exp) - (j \div 64)
pow_vartime(self, exp) ==
    Fold(LAMBDA st, j : PowStep(self, st, Bit(exp[Len(exp) - (j \div 64)], 63 - (j % 64))),
         <<one, FALSE>>, 0, 64 * Len(exp))[1]

\* the exponent q - 2 of invert
QMinus2 == << U64(\hbfd2, \h5e8c, \hd036, \h413f),
              U64(\hbaae, \hdce6, \haf48, \ha03b),
              U64(\hffff, \hffff, \hffff, \hfffe),
              U64(\hffff, \hffff, \hffff, \hffff) >>

\* a CtOption<Fq>
CtOption(v, some) == [value |-> v, is_some |-> some]

\* variant of invert: the result is present whatever self is
invert_unchecked(self) == CtOption(pow_vartime(self, QMinus2), TRUE)

invert(self) == CtOption(pow_vartime(self, QMinus2), ~ct_eq(self, zero))

-----------------------------------------------------------------------------
(* The canonical codec *)

\* u64::from_le_bytes on bytes bs[i+1 .. i+8]
from_le_bytes(bs, i) ==
    <<bs[i + 1] + H * bs[i + 2], bs[i + 3] + H * bs[i + 4],
      bs[i + 5] + H * bs[i + 6], bs[i + 7] + H * bs[i + 8]>>

\* u64::to_le_bytes
to_le_bytes(w) ==
    <<w[1] % H, w[1] \div H, w[2] % H, w[2] \div H,
      w[3] % H, w[3] \div H, w[4] % H, w[4] \div H>>

\* variant of from_repr: only the top limb is compared with the modulus
from_repr_top_limb_only(repr) ==
    LET tmp == <<from_le_bytes(repr, 0), from_le_bytes(repr, 8),
                 from_le_bytes(repr, 16), from_le_bytes(repr, 24)>>
        s3 == sbb(tmp[4], MODULUS[4], W0)
        is_some == s3[2][1] % 2
    IN  CtOption(mul(tmp, R2), is_some = 1)

from_repr(repr) ==
    LET tmp == <<from_le_bytes(repr, 0), from_le_bytes(repr, 8),
                 from_le_bytes(repr, 16), from_le_bytes(repr, 24)>>
        \* Try to subtract the modulus
        s0 == sbb(tmp[1], MODULUS[1], W0)
        s1 == sbb(tmp[2], MODULUS[2], s0[2])
        s2 == sbb(tmp[3], MODULUS[3], s1[2])
        s3 == sbb(tmp[4], MODULUS[4], s2[2])
        is_some == s3[2][1] % 2
    IN  CtOption(mul(tmp, R2), is_some = 1)

\* variant of to_repr: the limbs are written out in Montgomery form
to_repr_montgomery(self) ==
    to_le_bytes(self[1]) \o to_le_bytes(self[2]) \o
    to_le_bytes(self[3]) \o to_le_bytes(self[4])

to_repr(self) ==
    LET tmp == montgomery_reduce(self[1], self[2], self[3], self[4], W0, W0, W0, W0)
    IN  to_le_bytes(tmp[1]) \o to_le_bytes(tmp[2]) \o
        to_le_bytes(tmp[3]) \o to_le_bytes(tmp[4])

\* the value test_inv computes and compares with INV: MODULUS.0[0] to the power
\* 2^63 - 1 by 63 squarings and multiplications, negated
test_inv ==
    wrapping_sub(W0, Fold(LAMBDA inv, j : wrapping_mul(wrapping_mul(inv, inv), MODULUS[1]),
                          W1, 0, 63))

is_odd(self) == to_repr(self)[1] % 2

\* tmp.0[0] as u32: the two low 16-bit digits of the low limb
get_lower_32(self) ==
    Then(montgomery_reduce(self[1], self[2], self[3], self[4], W0, W0, W0, W0),
         LAMBDA tmp : <<tmp[1][1], tmp[1][2]>>)

from_bytes_wide(bytes) ==
    from_u512(<<from_le_bytes(bytes, 0), from_le_bytes(bytes, 8),
                from_le_bytes(bytes, 16), from_le_bytes(bytes, 24),
                from_le_bytes(bytes, 32), from_le_bytes(bytes, 40),
                from_le_bytes(bytes, 48), from_le_bytes(bytes, 56)>>)

TWO_INV == from_raw(<< U64(\hdfe9, \h2f46, \h681b, \h20a1),
                       U64(\h5d57, \h6e73, \h57a4, \h501d),
                       U64(\hffff, \hffff, \hffff, \hffff),
                       U64(\h7fff, \hffff, \hffff, \hffff) >>)

-----------------------------------------------------------------------------
(* Arbitrary-precision naturals, the reference the results are compared with:  *)
(* a natural is the sequence of its base-2^16 digits, least significant first. *)

\* the natural held in a sequence of 64-bit words (limbs), least significant first
NatOfWords(ws) == [i \in 1 .. 4 * Len(ws) |-> ws[((i - 1) \div 4) + 1][((i - 1) % 4) + 1]]

\* the natural encoded by little-endian bytes (an even number of them)
NatOfBytes(bs) == [i \in 1 .. Len(bs) \div 2 |-> bs[2 * i - 1] + H * bs[2 * i]]

\* without its leading (most significant) zero digits
NatNorm(x) ==
    LET nz == {i \in 1 .. Len(x) : x[i] # 0}
    IN  IF nz = {} THEN <<>>
        ELSE SubSeq(x, 1, CHOOSE i \in nz : \A j \in nz : j <= i)

NatDigit(x, i) == IF i <= Len(x) THEN x[i] ELSE 0

NatMaxLen(x, y) == IF Len(x) >= Len(y) THEN Len(x) ELSE Len(y)

\* x < y: at the highest digit where they differ, x has the smaller one
NatLess(x, y) ==
    \E i \in 1 .. NatMaxLen(x, y) :
        /\ NatDigit(x, i) < NatDigit(y, i)
        /\ \A j \in (i + 1) .. NatMaxLen(x, y) : NatDigit(x, j) = NatDigit(y, j)

NatEq(x, y) == NatNorm(x) = NatNorm(y)

\* the schoolbook loops keep st = <<digits so far, carry or borrow>>
NatAdd(x, y) ==
    LET st == Fold(LAMBDA s, i : LET t == NatDigit(x, i) + NatDigit(y, i) + s[2]
                                 IN  <<Append(s[1], t % B), t \div B>>,
                   <<<<>>, 0>>, 1, NatMaxLen(x, y) + 1)
    IN  Append(st[1], st[2])

\* x - y, for x >= y
NatSub(x, y) ==
    Fold(LAMBDA s, i : LET t == NatDigit(x, i) - NatDigit(y, i) - s[2]
                       IN  <<Append(s[1], t % B), IF t < 0 THEN 1 ELSE 0>>,
         <<<<>>, 0>>, 1, NatMaxLen(x, y) + 1)[1]

\* x * d, for one digit d
NatMulDigit(x, d) ==
    LET st == Fold(LAMBDA s, i : LET p == mul16(x[i], d)
                                     t == p[1] + s[2]
                                 IN  <<Append(s[1], t % B), p[2] + (t \div B)>>,
                   <<<<>>, 0>>, 1, Len(x) + 1)
    IN  Append(st[1], st[2])

\* x * 2^(16 n)
NatShift(x, n) == [i \in 1 .. n |-> 0] \o x

NatMul(x, y) ==
    Fold(LAMBDA s, i : NatAdd(s, NatShift(NatMulDigit(x, y[i]), i - 1)),
         <<>>, 1, Len(y) + 1)

\* v mod m for v < m * 2^16, by restoring division: for j = 15 down to 0,
\* subtract m * 2^j where it fits
NatRestore(v, m) ==
    LET ms == [j \in 0 .. 15 |-> NatMulDigit(m, 2^j)]
    IN  Fold(LAMBDA s, k : IF NatLess(s, ms[15 - k]) THEN s ELSE NatSub(s, ms[15 - k]),
             v, 0, 16)

\* x mod m, a digit of x at a time from the most significant: the remainder r
\* of the digits read so far becomes (r * 2^16 + digit) mod m
\* (with fewer digits than m there is nothing to subtract)
NatMod(x, m) ==
    Fold(LAMBDA r, k : LET v == <<x[Len(x) - k]>> \o r
                       IN  IF Len(v) < Len(m) THEN v ELSE NatNorm(NatRestore(v, m)),
         <<>>, 0, Len(x))

\* the modulus q as a natural
Q == NatOfWords(MODULUS)

\* q * 2^256 and 2 * q
QTimesR == NatShift(Q, 16)

TwoQ == NatAdd(Q, Q)

\* the integer an element stands for, as read through to_repr
canonical(x) == NatOfBytes(to_repr(x))

-----------------------------------------------------------------------------
(* The inputs the operations are driven with *)

\* the number of operations applied one after the other
MaxSteps == 1

\* the 32-byte little-endian encoding of four words
BytesOf(ws) == to_le_bytes(ws[1]) \o to_le_bytes(ws[2]) \o
               to_le_bytes(ws[3]) \o to_le_bytes(ws[4])

\* q - 1 and q + 1 as four words
QMinus1 == <<U64(\hbfd2, \h5e8c, \hd036, \h4140), MODULUS[2], MODULUS[3], MODULUS[4]>>

QPlus1 == <<U64(\hbfd2, \h5e8c, \hd036, \h4142), MODULUS[2], MODULUS[3], MODULUS[4]>>

\* 2^256 - 1
AllOnes == <<WMAX, WMAX, WMAX, WMAX>>

\* (q - 1) / R mod q: from_raw of it has the limb value q - 1
RawQm1 == << U64(\h3ed5, \h3bf9, \h4f9e, \h812b),
             U64(\h7ef3, \h0890, \h2fa3, \h93ff),
             U64(\h7680, \hcf3e, \hd830, \h54a1),
             U64(\h2617, \h76f2, \h9b6b, \h106c) >>

\* 1 / R mod q: from_raw of it has the limb value 1
RawOne == << U64(\h80fd, \h2293, \h8097, \hc016),
             U64(\h3bbb, \hd456, \h7fa5, \h0c3c),
             U64(\h897f, \h30c1, \h27cf, \hab5d),
             U64(\hd9e8, \h890d, \h6494, \hef93) >>

\* an integer below q without structure
RawRand == << U64(\h2e84, \h496e, \h7857, \hdd86),
              U64(\h940e, \hee3c, \hba6f, \h875c),
              U64(\h3340, \h6bc4, \h4dc2, \ha627),
              U64(\hb938, \h451e, \he325, \hfaa6) >>

\* below q in the top limb only: the three low limbs are above those of q
TopBelow == <<WMAX, WMAX, WMAX, U64(\hffff, \hffff, \hffff, \hfffe)>>

U64Inputs == {W0, W1, U64(0, 0, 0, 2), WMAX}

RawInputs == {zero, AllOnes, MODULUS, QMinus1, RawQm1, RawRand}

ReprInputs == {BytesOf(zero), BytesOf(QMinus1), BytesOf(MODULUS), BytesOf(QPlus1),
               BytesOf(AllOnes), BytesOf(RawRand), BytesOf(TopBelow),
               BytesOf(<<W0, W0, W0, WMAX>>)}

\* 512-bit inputs as eight words: 0, 2^512 - 1, q + q * 2^256, 2^256, q - 1, and
\* one without structure
WideInputs == {zero \o zero, AllOnes \o AllOnes, MODULUS \o MODULUS,
               zero \o <<W1, W0, W0, W0>>, QMinus1 \o zero, RawRand \o RawQm1}

WideBytes == {BytesOf(AllOnes) \o BytesOf(AllOnes), BytesOf(RawQm1) \o BytesOf(MODULUS),
              BytesOf(MODULUS) \o BytesOf(zero)}

\* the 8-limb inputs of montgomery_reduce, all below q * 2^256: 0, q * 2^256 - 1,
\* q - 1, q, (q - 1) * 2^256 + 1, and one without structure
ReduceInputs == {zero \o zero, AllOnes \o QMinus1, QMinus1 \o zero, MODULUS \o zero,
                 <<W1, W0, W0, W0>> \o QMinus1, RawRand \o RawQm1}

\* the elements the program starts from: zero, 2, and the limb values q - 1
\* and a structureless one
Elements == {zero, from_u64(U64(0, 0, 0, 2)), from_raw(RawQm1), from_raw(RawRand)}

\* the arguments of add, sub and mul: the limb values 1, q - 1, and a structureless one
Operands == {from_raw(RawOne), from_raw(RawQm1), from_raw(RawRand)}

\* the exponents of pow_vartime: 5 and 2^64
Exponents == {<<U64(0, 0, 0, 5)>>, <<W0, W1>>}

-----------------------------------------------------------------------------
(* The program: one Fq value and the operations of fq.rs applied to it *)

\* The square-root oracle behind sqrt (FQ_TABLES.sqrt_alt): a verdict and a
\* candidate, with candidate^2 = self whenever the verdict is TRUE. Its tables
\* are built outside fq.rs, so only this contract is modelled, and the
\* candidates are taken from Elements.
sqrt_alt(self) == {<<ct_eq(square(r), self), r>> : r \in Elements}

Init ==
    /\ acc \in Elements
    /\ lhs = zero
    /\ arg = zero
    /\ op = "init"
    /\ present = TRUE
    /\ input = <<>>
    /\ steps = 0
    /\ aborted = FALSE

\* The operation o, of receiver l, argument r and raw argument i, returned v,
\* present or not: the program holds the value of a present result.
Return(o, l, r, i, v, some) ==
    /\ ~aborted
    /\ steps < MaxSteps
    /\ steps' = steps + 1
    /\ aborted' = FALSE
    /\ op' = o
    /\ lhs' = l
    /\ arg' = r
    /\ input' = i
    /\ present' = some
    /\ acc' = IF some THEN v ELSE acc

\* The operation o of receiver l ran into unimplemented!(): the program aborts,
\* nothing is returned and nothing runs after it.
Unimplemented(o, l) ==
    /\ ~aborted
    /\ steps < MaxSteps
    /\ steps' = steps + 1
    /\ aborted' = TRUE
    /\ op' = o
    /\ lhs' = l
    /\ arg' = zero
    /\ input' = <<>>
    /\ present' = FALSE
    /\ acc' = acc

Zero == Return("zero", zero, zero, <<>>, zero, TRUE)

One == Return("one", zero, zero, <<>>, one, TRUE)

FromU64 == \E val \in U64Inputs :
    Return("from_u64", zero, zero, <<val>>, from_u64(val), TRUE)

FromRaw == \E val \in RawInputs :
    Return("from_raw", zero, zero, val, from_raw(val), TRUE)

FromU512 == \E limbs \in WideInputs :
    Return("from_u512", zero, zero, limbs, from_u512(limbs), TRUE)

FromBytesWide == \E bytes \in WideBytes :
    Return("from_bytes_wide", zero, zero, bytes, from_bytes_wide(bytes), TRUE)

FromRepr == \E repr \in ReprInputs :
    LET res == from_repr(repr)
    IN  Return("from_repr", zero, zero, repr, res.value, res.is_some)

ToRepr == Return("to_repr", acc, zero, to_repr(acc), acc, TRUE)

Add == \E r \in Operands : Return("add", acc, r, <<>>, add(acc, r), TRUE)

Sub == \E r \in Operands : Return("sub", acc, r, <<>>, sub(acc, r), TRUE)

Mul == \E r \in Operands : Return("mul", acc, r, <<>>, mul(acc, r), TRUE)

Neg == Return("neg", acc, zero, <<>>, neg(acc), TRUE)

Double == Return("double", acc, zero, <<>>, double(acc), TRUE)

Square == Return("square", acc, zero, <<>>, square(acc), TRUE)

PowVartime == \E exp \in Exponents :
    Return("pow_vartime", acc, zero, exp, pow_vartime(acc, exp), TRUE)

Invert ==
    LET res == invert(acc)
    IN  Return("invert", acc, zero, <<>>, res.value, res.is_some)

IsOdd == Return("is_odd", acc, zero, <<is_odd(acc)>>, acc, TRUE)

MultiplicativeGenerator == Unimplemented("multiplicative_generator", zero)

RootOfUnity == Unimplemented("root_of_unity", zero)

PowByTMinus1Over2 == Unimplemented("pow_by_t_minus1_over2", acc)

GetLower32 == Return("get_lower_32", acc, zero, get_lower_32(acc), acc, TRUE)

Sqrt == \E res \in sqrt_alt(acc) :
    Return("sqrt", acc, zero, <<>>, res[2], res[1])

MontgomeryReduce == \E t \in ReduceInputs :
    Return("montgomery_reduce", zero, zero, t,
           montgomery_reduce(t[1], t[2], t[3], t[4], t[5], t[6], t[7], t[8]), TRUE)

Next ==
    \/ Zero
    \/ One
    \/ FromU64
    \/ FromRaw
    \/ FromU512
    \/ FromBytesWide
    \/ FromRepr
    \/ ToRepr
    \/ Add
    \/ Sub
    \/ Mul
    \/ Neg
    \/ Double
    \/ Square
    \/ PowVartime
    \/ Invert
    \/ IsOdd
    \/ MultiplicativeGenerator
    \/ RootOfUnity
    \/ PowByTMinus1Over2
    \/ GetLower32
    \/ Sqrt
    \/ MontgomeryReduce

Spec == Init /\ [][Next]_vars

-----------------------------------------------------------------------------
(* The properties *)

\* the integer held in the four limbs of an element
LimbValue(x) == NatOfWords(x)

\* C1: after mul(a, b) on elements a and b, the canonical integer of the result
\* (read through to_repr) is (canonical(a) * canonical(b)) mod q.
MulIsProductModQ ==
    op = "mul" =>
        NatEq(canonical(acc), NatMod(NatMul(canonical(lhs), canonical(arg)), Q))

\* a product of two nonzero elements, one of them with the limb value q - 1
MulHappened ==
    /\ op = "mul"
    /\ lhs # zero
    /\ NatEq(LimbValue(arg), LimbValue(QMinus1))

\* C2: after add(a, b), the canonical integer of the result is
\* (canonical(a) + canonical(b)) mod q, whether or not the limb sum carries
\* out of the top limb or lands in [q, 2^256).
AddIsSumModQ ==
    op = "add" =>
        NatEq(canonical(acc), NatMod(NatAdd(canonical(lhs), canonical(arg)), Q))

\* an addition whose 256-bit limb sum carries out of the top limb
AddCarriedOut ==
    /\ op = "add"
    /\ Len(NatNorm(NatAdd(LimbValue(lhs), LimbValue(arg)))) > 16

\* C3: after sub(a, b), the canonical integer of the result is
\* (canonical(a) + q - canonical(b)) mod q, and the limbs are a - b, plus q
\* exactly once when a - b underflows.
SubIsDifferenceModQ ==
    op = "sub" =>
        /\ NatEq(canonical(acc),
                 NatMod(NatSub(NatAdd(canonical(lhs), Q), canonical(arg)), Q))
        /\ IF NatLess(LimbValue(lhs), LimbValue(arg))
           THEN NatEq(LimbValue(acc), NatSub(NatAdd(LimbValue(lhs), Q), LimbValue(arg)))
           ELSE NatEq(LimbValue(acc), NatSub(LimbValue(lhs), LimbValue(arg)))

\* a subtraction whose limb difference underflows
SubUnderflowed ==
    /\ op = "sub"
    /\ NatLess(LimbValue(lhs), LimbValue(arg))

\* C4: the four limbs of every value the program holds, and of the operands
\* it was computed from, are an integer strictly less than q.
LimbsBelowModulus ==
    /\ NatLess(LimbValue(acc), Q)
    /\ NatLess(LimbValue(lhs), Q)
    /\ NatLess(LimbValue(arg), Q)

\* an element made by from_raw from four words that are not below q
RawAboveModulusReduced ==
    /\ op = "from_raw"
    /\ ~NatLess(LimbValue(input), Q)

\* C5: from_repr(bytes) is absent exactly when the little-endian integer of
\* the 32 bytes is q or more.
FromReprAbsentIffNotBelowQ ==
    op = "from_repr" => (present <=> NatLess(NatOfBytes(input), Q))

\* from_repr refused the encoding of q
FromReprRefusedQ ==
    /\ op = "from_repr"
    /\ input = BytesOf(MODULUS)
    /\ ~present

\* C6: for 32 bytes that encode an integer below q, from_repr is present and
\* to_repr of the element gives the same bytes.
ReprRoundTrip ==
    (op = "from_repr" /\ NatLess(NatOfBytes(input), Q)) =>
        /\ present
        /\ to_repr(acc) = input

\* from_repr accepted the encoding of q - 1
FromReprAcceptedQMinus1 ==
    /\ op = "from_repr"
    /\ input = BytesOf(QMinus1)
    /\ present

\* C7: invert(a) is present exactly when a is not zero, a * invert(a) is one
\* then, and invert(from(2)) is TWO_INV.
InvertIsInverse ==
    op = "invert" =>
        /\ present <=> lhs # zero
        /\ present => mul(lhs, acc) = one
        /\ lhs = from_u64(U64(0, 0, 0, 2)) => acc = TWO_INV

\* a nonzero element other than 2 was inverted
InvertedNonzero ==
    /\ op = "invert"
    /\ present
    /\ lhs # zero
    /\ lhs # from_u64(U64(0, 0, 0, 2))

\* C8: square(a) is mul(a, a) limb for limb, and its canonical integer is
\* canonical(a)^2 mod q.
SquareIsMulBySelf ==
    op = "square" =>
        /\ acc = mul(lhs, lhs)
        /\ NatEq(canonical(acc), NatMod(NatMul(canonical(lhs), canonical(lhs)), Q))

\* the element with the limb value q - 1 was squared
SquaredQMinus1 ==
    /\ op = "square"
    /\ NatEq(LimbValue(lhs), LimbValue(QMinus1))

\* C9: add(a, neg(a)) is zero; neg(a) has the limb value q - a for a nonzero
\* a, and neg(zero) is the all-zero limbs.
NegIsAdditiveInverse ==
    op = "neg" =>
        /\ add(lhs, acc) = zero
        /\ lhs # zero => NatEq(NatAdd(LimbValue(acc), LimbValue(lhs)), Q)
        /\ lhs = zero => acc = zero

\* zero was negated
NegatedZero ==
    /\ op = "neg"
    /\ lhs = zero

\* C10: from_u512 and from_bytes_wide of a 512-bit input d0 + d1 * 2^256
\* return the element with limbs below q whose canonical integer is
\* (d0 + d1 * 2^256) mod q.
WideIsReducedModQ ==
    /\ op = "from_u512" =>
           /\ NatLess(LimbValue(acc), Q)
           /\ NatEq(canonical(acc), NatMod(NatOfWords(input), Q))
    /\ op = "from_bytes_wide" =>
           /\ NatLess(LimbValue(acc), Q)
           /\ NatEq(canonical(acc), NatMod(NatOfBytes(input), Q))

\* from_u512 of 2^512 - 1: both halves are above q
WideAllOnes ==
    /\ op = "from_u512"
    /\ input = AllOnes \o AllOnes

\* C11: an operation aborts exactly when it is multiplicative_generator or
\* root_of_unity: those two always abort, and every other operation, the
\* square-root integration methods included, returns a value or an absent result.
OnlyGeneratorAndRootAbort ==
    aborted <=> op \in {"multiplicative_generator", "root_of_unity"}

\* C12: for an 8-limb input T below q * 2^256, the four rounds of
\* montgomery_reduce leave in r4..r7 and carry2 a value V below 2q with
\* V * 2^256 = T mod q, and montgomery_reduce returns the integer D in [0, q)
\* with D * 2^256 = T mod q, which is T * 2^(-256) mod q; in to_repr, where
\* r4..r7 are zero, the bytes returned are that integer for the element's limbs.
ReduceIsExactBelowTwoQ ==
    /\ (op = "montgomery_reduce" /\ NatLess(NatOfWords(input), QTimesR)) =>
           /\ Then(NatOfWords(montgomery_reduce_rounds(input)),
                   LAMBDA v : /\ NatLess(v, TwoQ)
                              /\ NatEq(NatMod(NatShift(v, 16), Q),
                                       NatMod(NatOfWords(input), Q)))
           /\ NatLess(LimbValue(acc), Q)
           /\ NatEq(NatMod(NatShift(LimbValue(acc), 16), Q),
                    NatMod(NatOfWords(input), Q))
    /\ op = "to_repr" =>
           /\ NatLess(NatOfBytes(input), Q)
           /\ NatEq(NatMod(NatShift(NatOfBytes(input), 16), Q), LimbValue(lhs))

\* q * 2^256 - 1 was reduced: the four rounds end with carry2 set, above 2^256
ReducedWithCarry2 ==
    /\ op = "montgomery_reduce"
    /\ input = AllOnes \o QMinus1
    /\ montgomery_reduce_rounds(input)[5] = W1

\* C13: INV is -(q^(-1)) mod 2^64: MODULUS.0[0] * INV is 2^64 - 1 mod 2^64 and
\* INV is the value test_inv computes; so for a 64-bit r and k = r * INV mod
\* 2^64 the low 64 bits of r + k * MODULUS.0[0] are zero, for the words tried
\* and in each of the four rounds of every montgomery_reduce run.
InvCancelsLowLimb ==
    /\ wrapping_mul(MODULUS[1], INV) = WMAX
    /\ test_inv = INV
    /\ \A r \in U64Inputs : mac(r, wrapping_mul(r, INV), MODULUS[1], W0)[1] = W0
    /\ op = "montgomery_reduce" =>
           montgomery_reduce_discarded(input) = <<W0, W0, W0, W0>>

\* a reduction whose first round has a nonzero r0 and a nonzero k
RoundsCancelledNonzeroLimb ==
    /\ op = "montgomery_reduce"
    /\ input = RawRand \o RawQm1
    /\ wrapping_mul(input[1], INV) # W0

====
